---- MODULE Spec2Model ----
(***************************************************************************)
(* Job distribution and package lifecycle of the dragonfly mainframe:      *)
(*   get_jobs        src/mainframe/endpoints/job.py                        *)
(*   queue_package   src/mainframe/server.py                               *)
(*   report_package  src/mainframe/server.py                               *)
(* The store is one table of scan records.  Time is a discrete clock; one  *)
(* unit stands for one job timeout.  Optional columns are modelled as <<>>      *)
(* (NULL / None) or <<v>> (a value).  What a handler returns is an operator *)
(* of the state it reads and of its request; the handler's action applies *)
(* it.                                                                     *)
(***************************************************************************)
EXTENDS Integers, Sequences, FiniteSets, TLC

\* ---- bounds of the model
MaxTime == 3
MaxScans == 2
MaxBatch == 2

\* ---- program constants
\* mainframe_settings.job_timeout; the clock counts in units of it
JobTimeout == 1

None == <<>>
Some(x) == <<x>>

\* finished_at is written with the current time and never read back except to
\* test for NULL: the model keeps only that it is set.
Stamp == Some("set")

\* reported_at is written with utcnow(), and no two reports read the same time:
\* the model names the time of the n-th report sent for a row by n.
ReportedAt(n) == Some(n)

\* Callers: each is a worker (auth.subject) or a reporting client.
Procs == {"w1", "w2"}

\* What PyPI knows: one project with two releases; the last is the latest.
PyPIVersions == <<"1.0", "2.0">>
PyPINames == {"pkg"}
Names == PyPINames \cup {"ghost"}
ReqVersions == {None} \cup {Some(PyPIVersions[k]) : k \in 1..Len(PyPIVersions)}

ReqUrls == {None, Some("url_req")}
ReqInfos == {None, Some(""), Some("info")}
ScanUrls == {None, Some("url_scan")}
RuleSets == {{}, {"rule_a"}}

VARIABLES scans, now, sent, handed, pc, loaded

vars == <<scans, now, sent, handed, pc, loaded>>

ScanIds == 1..Len(scans)

\* pypi_client.get_package_metadata(name, version): KeyError for an unknown
\* release, otherwise the metadata, whose info.version is the latest release
\* when the request names none.
OnPyPI(name, version) ==
    /\ name \in PyPINames
    /\ version = None \/ \E k \in 1..Len(PyPIVersions) : version = Some(PyPIVersions[k])

MetadataVersion(name, version) ==
    IF version = None THEN PyPIVersions[Len(PyPIVersions)] ELSE version[1]

\* scans: the table, a row per scan_id in creation order.
\* sent[i]: the number of report mails handed to send_email for row i.
\* handed[i]: the number of JobResults get_jobs has returned for row i.
\* pc, loaded: where each caller's get_jobs transaction stands, and the
\* objects its session holds.
Init ==
    /\ scans = <<>>
    /\ now = 1
    /\ sent = <<>>
    /\ handed = <<>>
    /\ pc = [p \in Procs |-> "idle"]
    /\ loaded = [p \in Procs |-> <<>>]

\* The wall clock advances between requests.
Tick ==
    /\ now < MaxTime
    /\ now' = now + 1
    /\ UNCHANGED <<scans, sent, handed, pc, loaded>>

\* ---------------------------------------------------------------- store

\* Rows of the table with the given natural key.
Rows(name, version) ==
    {i \in ScanIds : scans[i].name = name /\ scans[i].version = version}

\* A freshly created row: status QUEUED, queued_at the creation time, every
\* other optional column NULL, no rule associated.
NewPackage(name, version) ==
    [name |-> name, version |-> version, status |-> "QUEUED",
     queued_at |-> now, pending_at |-> None, pending_by |-> None,
     finished_at |-> None, inspector_url |-> None, rules |-> {},
     download_urls |-> <<"sdist", "wheel">>, reported_at |-> None]

\* ---------------------------------------------------------------- POST /package

\* Mutant of QueueOutcome: the existing row is not looked for.
QueueOutcomeNoLookup(name, version) ==
    IF ~OnPyPI(name, version) THEN "NotOnPyPI" ELSE "Queued"

\* The response of queue_package.
QueueOutcome(name, version) ==
    IF ~OnPyPI(name, version) THEN "NotOnPyPI"
    ELSE IF Rows(name, MetadataVersion(name, version)) # {} THEN "AlreadyExists"
    ELSE "Queued"

QueuePackage(name, version) ==
    /\ IF QueueOutcome(name, version) # "Queued"
       THEN UNCHANGED <<scans, sent, handed>>
       ELSE /\ Len(scans) < MaxScans
            /\ scans' = Append(scans, NewPackage(name, MetadataVersion(name, version)))
            /\ sent' = Append(sent, 0)
            /\ handed' = Append(handed, 0)
    /\ UNCHANGED <<now, pc, loaded>>

\* The natural key is unique in the table: an INSERT of a second row with the
\* same name and version is refused by the database.
UniqueViolation(rows, name, version) ==
    \E i \in 1..Len(rows) : rows[i].name = name /\ rows[i].version = version

\* queue_package under READ COMMITTED, first half: the PyPI lookup and the
\* SELECT; the request ends here with 404 or 409, or goes on to the INSERT.
QueueSelect(p, name, version) ==
    /\ pc[p] = "idle"
    /\ IF QueueOutcome(name, version) # "Queued"
       THEN UNCHANGED <<pc, loaded>>
       ELSE /\ pc' = [pc EXCEPT ![p] = "queue"]
            /\ loaded' = [loaded EXCEPT ![p] =
                    <<[name |-> name, version |-> MetadataVersion(name, version)]>>]
    /\ UNCHANGED <<scans, now, sent, handed>>

\* The response of the second half: session.commit() raises IntegrityError,
\* which queue_package does not catch, when the INSERT is refused.
QueueCommitOutcome(p) ==
    IF UniqueViolation(scans, loaded[p][1].name, loaded[p][1].version)
    THEN "IntegrityError" ELSE "Queued"

\* queue_package under READ COMMITTED, second half: session.add and commit.
QueueCommit(p) ==
    /\ pc[p] = "queue"
    /\ IF QueueCommitOutcome(p) # "Queued"
       THEN UNCHANGED <<scans, sent, handed>>
       ELSE /\ Len(scans) < MaxScans
            /\ scans' = Append(scans, NewPackage(loaded[p][1].name, loaded[p][1].version))
            /\ sent' = Append(sent, 0)
            /\ handed' = Append(handed, 0)
    /\ pc' = [pc EXCEPT ![p] = "idle"]
    /\ loaded' = [loaded EXCEPT ![p] = <<>>]
    /\ UNCHANGED now

\* queue_package while releases keep arriving.  The table grows without bound;
\* the model holds MaxScans rows.  get_jobs never reads a FINISHED row again
\* (JobsWhere), so the row of the next release queued takes the place of a
\* FINISHED one.  The new row is the youngest of the queue: it comes after the
\* clock has passed the queued_at of every row still QUEUED.
QueueNext(i) ==
    /\ i \in ScanIds
    /\ scans[i].status = "FINISHED"
    /\ \A j \in ScanIds : scans[j].status = "QUEUED" => scans[j].queued_at < now
    /\ scans' = [scans EXCEPT ![i] = NewPackage(scans[i].name, scans[i].version)]
    /\ sent' = [sent EXCEPT ![i] = 0]
    /\ handed' = [handed EXCEPT ![i] = 0]
    /\ UNCHANGED <<now, pc, loaded>>

\* ---------------------------------------------------------------- POST /jobs

\* Mutant of JobsWhere: the timeout compared with <= instead of <.
JobsWhereInclusive(s, t) ==
    \/ s.status = "QUEUED"
    \/ /\ s.pending_at # None
       /\ s.pending_at[1] <= t - JobTimeout
       /\ s.status = "PENDING"

\* Mutant of JobsWhere: PENDING rows are never taken again.
JobsWhereQueuedOnly(s, t) == s.status = "QUEUED"

\* The WHERE clause: QUEUED, or PENDING with pending_at < now - job_timeout
\* (a NULL pending_at compares as unknown, so the row is not selected).
JobsWhere(s, t) ==
    \/ s.status = "QUEUED"
    \/ /\ s.pending_at # None
       /\ s.pending_at[1] < t - JobTimeout
       /\ s.status = "PENDING"

\* Mutant of JobsOrderBy: NULLS LAST.
JobsOrderByNullsLast(a, b) ==
    IF b.pending_at = None
    THEN a.pending_at # None \/ a.queued_at <= b.queued_at
    ELSE /\ a.pending_at # None
         /\ \/ a.pending_at[1] < b.pending_at[1]
            \/ a.pending_at[1] = b.pending_at[1] /\ a.queued_at <= b.queued_at

\* Mutant of JobsOrderBy: queued_at DESC.
JobsOrderByNewestFirst(a, b) ==
    IF a.pending_at = None
    THEN b.pending_at # None \/ a.queued_at >= b.queued_at
    ELSE /\ b.pending_at # None
         /\ \/ a.pending_at[1] < b.pending_at[1]
            \/ a.pending_at[1] = b.pending_at[1] /\ a.queued_at >= b.queued_at

\* ORDER BY pending_at NULLS FIRST, queued_at: a precedes-or-ties b.
JobsOrderBy(a, b) ==
    IF a.pending_at = None
    THEN b.pending_at # None \/ a.queued_at <= b.queued_at
    ELSE /\ b.pending_at # None
         /\ \/ a.pending_at[1] < b.pending_at[1]
            \/ a.pending_at[1] = b.pending_at[1] /\ a.queued_at <= b.queued_at

Min(a, b) == IF a <= b THEN a ELSE b

\* Mutant of JobsLimit: the LIMIT left out.
JobsNoLimit(batch, n) == n

\* LIMIT batch: how many of n matching rows the query gives.
JobsLimit(batch, n) == Min(batch, n)

\* The rows the WHERE clause matches.
JobsMatch(rows, t) == {i \in 1..Len(rows) : JobsWhere(rows[i], t)}

\* Every result the query can give: the first `batch` rows of the matching
\* rows in ORDER BY order; rows that tie may come in either order.
JobsQuery(rows, t, batch) ==
    LET match == JobsMatch(rows, t)
        n == JobsLimit(batch, Cardinality(match))
    IN {q \in [1..n -> match] :
          /\ \A k, l \in 1..n : k < l => q[k] # q[l] /\ JobsOrderBy(rows[q[k]], rows[q[l]])
          /\ \A j \in match : (\A k \in 1..n : q[k] # j) =>
                \A k \in 1..n : JobsOrderBy(rows[q[k]], rows[j])}

\* The objects of the session after the loop of the handler: what was read
\* of each row, and the time the loop wrote into pending_at.
JobsLoad(rows, q, t) ==
    [k \in 1..Len(q) |->
        [id |-> q[k], status |-> rows[q[k]].status, pending_at |-> rows[q[k]].pending_at,
         pending_by |-> rows[q[k]].pending_by, set_at |-> t]]

\* Mutant of JobsAssign: the row is queued anew when it is assigned.
JobsAssignRequeue(row, e, p) ==
    [row EXCEPT !.status = "PENDING", !.pending_at = Some(e.set_at),
                !.pending_by = Some(p), !.queued_at = e.set_at]

\* Mutant of JobsAssign: the worker is not recorded.
JobsAssignNoWorker(row, e, p) ==
    [row EXCEPT !.status = IF e.status # "PENDING" THEN "PENDING" ELSE @,
                !.pending_at = IF e.pending_at # Some(e.set_at) THEN Some(e.set_at) ELSE @]

\* scan.status = PENDING; scan.pending_at = now; scan.pending_by = auth.subject,
\* as the unit of work flushes them at commit: an UPDATE by primary key of the
\* columns whose new value differs from the value that was read.
JobsAssign(row, e, p) ==
    [row EXCEPT !.status = IF e.status # "PENDING" THEN "PENDING" ELSE @,
                !.pending_at = IF e.pending_at # Some(e.set_at) THEN Some(e.set_at) ELSE @,
                !.pending_by = IF e.pending_by # Some(p) THEN Some(p) ELSE @]

JobsFlush(rows, ld, p) ==
    [i \in 1..Len(rows) |->
        IF \E k \in 1..Len(ld) : ld[k].id = i
        THEN JobsAssign(rows[i], ld[CHOOSE k \in 1..Len(ld) : ld[k].id = i], p)
        ELSE rows[i]]

\* The response: one JobResult per object of the session, in order.
JobsResponse(ld) == [k \in 1..Len(ld) |-> ld[k].id]

\* handed, after the response q has gone out.
JobsHanded(q) ==
    [i \in 1..Len(handed) |->
        IF \E k \in 1..Len(q) : q[k] = i THEN handed[i] + 1 ELSE handed[i]]

\* get_jobs run alone, returning the rows q: the query, the loop and the
\* commit in one transaction that nothing interleaves with.
GetJobsReturning(p, batch, q) ==
    /\ pc[p] = "idle"
    /\ q \in JobsQuery(scans, now, batch)
    /\ scans' = JobsFlush(scans, JobsLoad(scans, q, now), p)
    /\ handed' = JobsHanded(JobsResponse(JobsLoad(scans, q, now)))
    /\ UNCHANGED <<now, sent, pc, loaded>>

GetJobs(p, batch) ==
    \E q \in JobsQuery(scans, now, batch) : GetJobsReturning(p, batch, q)

\* get_jobs under READ COMMITTED, first half: the SELECT and the loop.
JobsSelect(p, batch) ==
    /\ pc[p] = "idle"
    /\ \E q \in JobsQuery(scans, now, batch) :
          loaded' = [loaded EXCEPT ![p] = JobsLoad(scans, q, now)]
    /\ pc' = [pc EXCEPT ![p] = "jobs"]
    /\ UNCHANGED <<scans, now, sent, handed>>

\* get_jobs under READ COMMITTED, second half: the flush, the commit and the
\* response JobsResponse(loaded[p]).
JobsCommit(p) ==
    /\ pc[p] = "jobs"
    /\ scans' = JobsFlush(scans, loaded[p], p)
    /\ handed' = JobsHanded(JobsResponse(loaded[p]))
    /\ pc' = [pc EXCEPT ![p] = "idle"]
    /\ loaded' = [loaded EXCEPT ![p] = <<>>]
    /\ UNCHANGED <<now, sent>>

\* ---------------------------------------------------------------- Complete

\* The result submission of a worker: valid only from PENDING (else
\* InvalidTransition); sets FINISHED, finished_at, and stores the inspector
\* URL and the matched rules.
Complete(i, url, matched) ==
    /\ i \in ScanIds
    /\ IF scans[i].status # "PENDING"
       THEN UNCHANGED scans
       ELSE scans' = [scans EXCEPT ![i].status = "FINISHED",
                                   ![i].finished_at = Stamp,
                                   ![i].inspector_url = url,
                                   ![i].rules = matched]
    /\ UNCHANGED <<now, sent, handed, pc, loaded>>

\* ---------------------------------------------------------------- POST /report

\* send_report_email: ValueError when there is neither additional information
\* nor a matched rule; otherwise the mail is built and handed to send_email.
ReportRejected(additional_information, rules_matched) ==
    additional_information = None /\ rules_matched = {}

\* Mutant of ReportCheck: the inspector_url rule left out.
ReportCheckNoUrlRule(row, url, info) ==
    IF row.reported_at # None THEN "AlreadyReported"
    ELSE IF info = None /\ row.rules = {} THEN "MissingAdditionalInformation"
    ELSE ""

\* Mutant of ReportCheck: the additional_information rule left out.
ReportCheckNoInfoRule(row, url, info) ==
    IF row.reported_at # None THEN "AlreadyReported"
    ELSE IF url = None /\ row.inspector_url = None THEN "MissingInspectorUrl"
    ELSE ""

\* Mutant of ReportCheck: additional_information checked before inspector_url.
ReportCheckInfoFirst(row, url, info) ==
    IF row.reported_at # None THEN "AlreadyReported"
    ELSE IF info = None /\ row.rules = {} THEN "MissingAdditionalInformation"
    ELSE IF url = None /\ row.inspector_url = None THEN "MissingInspectorUrl"
    ELSE ""

\* The checks of report_package on the row, in the order of the code: the
\* error, or "" when the report goes on to send_report_email.
ReportCheck(row, url, info) ==
    IF row.reported_at # None THEN "AlreadyReported"
    ELSE IF url = None /\ row.inspector_url = None THEN "MissingInspectorUrl"
    ELSE IF info = None /\ row.rules = {} THEN "MissingAdditionalInformation"
    ELSE ""

\* Mutant of ReportInspectorUrl: the row's URL preferred to the request's.
ReportInspectorUrlStoredFirst(row, url) ==
    IF row.inspector_url = None THEN url ELSE row.inspector_url

\* inspector_url of the mail: the request's when given, else the row's.
ReportInspectorUrl(row, url) ==
    IF url = None THEN row.inspector_url ELSE url

\* rules_matched of the mail: the row's rule names when the request gives no
\* additional information, else the empty list it was initialised to.
ReportRulesMatched(row, info) ==
    IF info = None THEN row.rules ELSE {}

\* The keyword arguments report_package calls send_report_email with.
ReportMail(row, name, version, url, info) ==
    [package_name |-> name, package_version |-> version,
     inspector_url |-> ReportInspectorUrl(row, url),
     additional_information |-> info,
     rules_matched |-> ReportRulesMatched(row, info)]

\* The text send_report_email puts into the mail: `x or default` replaces None
\* and the empty string alike; the rule names are joined in order.
NoDescription == "No user description provided"
NoRules == "No rules matched"

ReportContent(mail) ==
    [package_name |-> mail.package_name, package_version |-> mail.package_version,
     inspector_url |-> mail.inspector_url[1],
     additional_information |->
        IF mail.additional_information = None \/ mail.additional_information = Some("")
        THEN NoDescription ELSE mail.additional_information[1],
     rules_matched |-> IF mail.rules_matched = {} THEN {NoRules} ELSE mail.rules_matched]

\* Mutant of ReportOutcome: a failure of the mail is swallowed.
ReportOutcomeMailIgnored(i, url, info, mail_ok) ==
    LET check == ReportCheck(scans[i], url, info) IN
    IF check # "" THEN check
    ELSE IF ReportRejected(info, ReportRulesMatched(scans[i], info)) THEN "ValueError"
    ELSE "Reported"

\* The response of report_package on row i.
ReportOutcome(i, url, info, mail_ok) ==
    LET check == ReportCheck(scans[i], url, info) IN
    IF check # "" THEN check
    ELSE IF ReportRejected(info, ReportRulesMatched(scans[i], info)) THEN "ValueError"
    ELSE IF ~mail_ok THEN "MailError"
    ELSE "Reported"

ReportPackage(name, version, url, info, mail_ok) ==
    /\ IF ~OnPyPI(name, version) \/ Rows(name, MetadataVersion(name, version)) = {}
       THEN UNCHANGED <<scans, sent>>
       ELSE \E i \in Rows(name, MetadataVersion(name, version)) :
               IF ReportOutcome(i, url, info, mail_ok) # "Reported"
               THEN UNCHANGED <<scans, sent>>
               ELSE /\ sent' = [sent EXCEPT ![i] = @ + 1]
                    /\ scans' = [scans EXCEPT ![i].reported_at = ReportedAt(sent[i] + 1)]
    /\ UNCHANGED <<now, handed, pc, loaded>>

\* report_package under READ COMMITTED, first half: the PyPI lookup, the SELECT
\* of the row and the checks on what was read; the request ends here with its
\* error, or goes on to the mail with the row held by the session.
ReportSelect(p, name, version, url, info) ==
    /\ pc[p] = "idle"
    /\ IF ~OnPyPI(name, version) \/ Rows(name, MetadataVersion(name, version)) = {}
       THEN UNCHANGED <<pc, loaded>>
       ELSE \E i \in Rows(name, MetadataVersion(name, version)) :
               IF ReportOutcome(i, url, info, TRUE) # "Reported"
               THEN UNCHANGED <<pc, loaded>>
               ELSE /\ pc' = [pc EXCEPT ![p] = "report"]
                    /\ loaded' = [loaded EXCEPT ![p] =
                            <<[id |-> i]>>]
    /\ UNCHANGED <<scans, now, sent, handed>>

\* report_package under READ COMMITTED, second half: send_report_email, then
\* row.reported_at = utcnow() and the commit, an UPDATE by primary key.  A
\* failure of the mail ends the request with nothing written.
ReportCommit(p, mail_ok) ==
    /\ pc[p] = "report"
    /\ IF ~mail_ok
       THEN UNCHANGED <<scans, sent>>
       ELSE /\ sent' = [sent EXCEPT ![loaded[p][1].id] = @ + 1]
            /\ scans' = [scans EXCEPT ![loaded[p][1].id].reported_at =
                                            ReportedAt(sent[loaded[p][1].id] + 1)]
    /\ pc' = [pc EXCEPT ![p] = "idle"]
    /\ loaded' = [loaded EXCEPT ![p] = <<>>]
    /\ UNCHANGED <<now, handed>>

\* The response of report_package to a request: 404 when PyPI does not know the
\* release or the table has no row for it, else what the row decides.
ReportResponse(name, version, url, info, mail_ok) ==
    IF ~OnPyPI(name, version) THEN "NotFound"
    ELSE LET rows == Rows(name, MetadataVersion(name, version)) IN
         IF rows = {} THEN "NotFound"
         ELSE ReportOutcome(CHOOSE i \in rows : TRUE, url, info, mail_ok)

\* ---------------------------------------------------------------- specifications

\* Requests served one at a time: every handler runs its transaction alone.
Next ==
    \/ Tick
    \/ \E name \in Names, version \in ReqVersions : QueuePackage(name, version)
    \/ \E p \in Procs, batch \in 1..MaxBatch : GetJobs(p, batch)
    \/ \E i \in 1..MaxScans, url \in ScanUrls, matched \in RuleSets :
          Complete(i, url, matched)
    \/ \E name \in Names, version \in ReqVersions, url \in ReqUrls,
          info \in ReqInfos, mail_ok \in BOOLEAN :
          ReportPackage(name, version, url, info, mail_ok)

Spec == Init /\ [][Next]_vars

\* The scheduler served concurrently on READ COMMITTED transactions: other
\* requests commit between the SELECT of get_jobs and its commit.  What a
\* result stores does not concern the scheduler: one result stands for all.
NextConc ==
    \/ Tick
    \/ \E name \in Names, version \in ReqVersions : QueuePackage(name, version)
    \/ \E p \in Procs, batch \in 1..MaxBatch : JobsSelect(p, batch)
    \/ \E p \in Procs : JobsCommit(p)
    \/ \E i \in 1..MaxScans : Complete(i, None, {})

SpecConc == Init /\ [][NextConc]_vars

\* The clients served concurrently on READ COMMITTED transactions: other
\* requests commit between the SELECT of queue_package or report_package and
\* its commit.
NextReq ==
    \/ Tick
    \/ \E p \in Procs, name \in Names, version \in ReqVersions : QueueSelect(p, name, version)
    \/ \E p \in Procs : QueueCommit(p)
    \/ \E p \in Procs, name \in Names, version \in ReqVersions, url \in ReqUrls,
          info \in ReqInfos : ReportSelect(p, name, version, url, info)
    \/ \E p \in Procs, mail_ok \in BOOLEAN : ReportCommit(p, mail_ok)

SpecReq == Init /\ [][NextReq]_vars

\* The scheduler over an unending stream of releases, with workers that keep
\* asking for jobs: a get_jobs that has a row to hand out is eventually served.
NextLive ==
    \/ Tick
    \/ \E name \in Names, version \in ReqVersions : QueuePackage(name, version)
    \/ \E i \in 1..MaxScans : QueueNext(i)
    \/ \E p \in Procs, batch \in 1..MaxBatch : GetJobs(p, batch)
    \/ \E i \in 1..MaxScans : Complete(i, None, {})

SpecLive ==
    /\ Init /\ [][NextLive]_vars
    /\ WF_vars(\E p \in Procs, batch \in 1..MaxBatch : GetJobs(p, batch))

\* ---------------------------------------------------------------- properties

\* The rows of a response.
Returned(q) == {q[k] : k \in 1..Len(q)}

\* More than the job timeout has passed since the row was assigned.
TimedOut(row, t) ==
    row.status = "PENDING" /\ row.pending_at # None /\ t - row.pending_at[1] > JobTimeout

\* The row was handed out at this instant, for the n-th time.
HandedNow(i, n) ==
    /\ scans[i].status = "PENDING"
    /\ scans[i].pending_at = Some(now)
    /\ handed[i] = n

\* C1: get_jobs is exclusive: a row is handed to at most one caller per
\* eligibility period, so its n-th hand-out comes no sooner than n-1 elapsed
\* timeouts after it was queued.
C1_ExclusiveAssignment ==
    \A i \in ScanIds :
        handed[i] > 0 => (handed[i] - 1) * (JobTimeout + 1) <= now - scans[i].queued_at

\* C2 as claimed: whatever the batch, no QUEUED row is returned while a timed-out
\* PENDING row is left unreturned.
C2_TimedOutBeforeQueued ==
    \A batch \in 1..MaxBatch : \A q \in JobsQuery(scans, now, batch) :
        \A i \in Returned(q), j \in ScanIds \ Returned(q) :
            ~(scans[i].status = "QUEUED" /\ TimedOut(scans[j], now))

\* C2 as amended: whatever the batch, no timed-out PENDING row is returned while
\* a QUEUED row is left unreturned.
C2_QueuedBeforeTimedOut ==
    \A batch \in 1..MaxBatch : \A q \in JobsQuery(scans, now, batch) :
        \A i \in Returned(q), j \in ScanIds \ Returned(q) :
            ~(TimedOut(scans[i], now) /\ scans[j].status = "QUEUED")

\* A QUEUED row has just been handed out for the first time while a PENDING
\* row whose timeout has elapsed is left waiting.
C2_Witness ==
    \E i, j \in ScanIds : HandedNow(i, 1) /\ TimedOut(scans[j], now)

C4_OnlyEligibleReturned ==
    \A batch \in 1..MaxBatch : \A q \in JobsQuery(scans, now, batch) :
        \A i \in Returned(q) :
            \/ scans[i].status = "QUEUED"
            \/ /\ scans[i].status = "PENDING"
               /\ scans[i].pending_at # None
               /\ scans[i].pending_at[1] < now - JobTimeout

\* A PENDING row stands exactly at the boundary of the window while another row
\* has just been handed out.
C4_Witness ==
    \E i, j \in ScanIds :
        /\ scans[i].status = "PENDING" /\ scans[i].pending_at = Some(now)
        /\ scans[j].status = "PENDING" /\ scans[j].pending_at = Some(now - JobTimeout)

\* C5: get_jobs by worker p sets status, pending_at and pending_by of the rows
\* it returns and nothing else; every other row, and the number of rows, is
\* left as it was.  (The steps of get_jobs that return a row are those that
\* change handed.)
C5_AssignFrame ==
    [][handed' # handed =>
          \A p \in Procs, batch \in 1..MaxBatch : \A q \in JobsQuery(scans, now, batch) :
              GetJobsReturning(p, batch, q) =>
                  /\ Len(scans') = Len(scans)
                  /\ \A i \in ScanIds :
                        scans'[i] = IF i \in Returned(q)
                                    THEN [scans[i] EXCEPT !.status = "PENDING",
                                                          !.pending_at = Some(now),
                                                          !.pending_by = Some(p)]
                                    ELSE scans[i]]_vars

\* A row queued earlier has just been handed out and another row has not.
C5_Witness ==
    \E i, j \in ScanIds :
        /\ HandedNow(i, 1) /\ scans[i].queued_at < now
        /\ scans[j].pending_at # Some(now)

\* The rows a get_jobs call may take, in the words of the claim.
EligibleRows == {i \in ScanIds : scans[i].status = "QUEUED" \/ TimedOut(scans[i], now)}

\* C6: get_jobs with batch n always has a result, of exactly min(n, number of
\* eligible rows) rows; it is empty only when no row is eligible.
C6_BatchSize ==
    \A batch \in 1..MaxBatch :
        /\ JobsQuery(scans, now, batch) # {}
        /\ \A q \in JobsQuery(scans, now, batch) :
              /\ Len(q) = IF batch <= Cardinality(EligibleRows)
                          THEN batch ELSE Cardinality(EligibleRows)
              /\ Len(q) = 0 <=> EligibleRows = {}

\* Rows have just been handed out, and no eligible row is left for the next
\* call.
C6_Witness ==
    /\ \E i \in ScanIds : HandedNow(i, 1)
    /\ EligibleRows = {}

\* C7: a PENDING row whose timeout has elapsed, when it is the only eligible
\* row, is what get_jobs(batch=1) returns, with pending_at later than before,
\* pending_by the caller and queued_at unchanged; a PENDING row whose timeout
\* has not elapsed is not returned by any get_jobs.
C7_Reclamation ==
    /\ [](\A i \in ScanIds :
            /\ (TimedOut(scans[i], now) /\ EligibleRows = {i}) =>
                  JobsQuery(scans, now, 1) = {<<i>>}
            /\ (scans[i].status = "PENDING" /\ ~TimedOut(scans[i], now)) =>
                  \A batch \in 1..MaxBatch :
                      \A q \in JobsQuery(scans, now, batch) : i \notin Returned(q))
    /\ [][handed' # handed =>
            \A p \in Procs, i \in ScanIds :
                /\ (TimedOut(scans[i], now) /\ EligibleRows = {i} /\ GetJobs(p, 1)) =>
                      /\ scans'[i].status = "PENDING"
                      /\ scans'[i].pending_at = Some(now)
                      /\ scans[i].pending_at[1] < now
                      /\ scans'[i].pending_by = Some(p)
                      /\ scans'[i].queued_at = scans[i].queued_at
                      /\ handed'[i] = handed[i] + 1
                /\ (scans[i].status = "PENDING" /\ ~TimedOut(scans[i], now)) =>
                      scans'[i] = scans[i] /\ handed'[i] = handed[i]]_vars

\* A row has just been handed out for the second time.
C7_Witness ==
    \E i \in ScanIds : HandedNow(i, 2) /\ scans[i].queued_at < now

StatusRank(status) ==
    IF status = "QUEUED" THEN 0 ELSE IF status = "PENDING" THEN 1 ELSE 2

\* C8: no step deletes a row or moves a row's status backwards (PENDING to
\* QUEUED, FINISHED to PENDING or QUEUED).
C8_StatusNeverBackwards ==
    [][/\ Len(scans') >= Len(scans)
       /\ \A i \in ScanIds : StatusRank(scans'[i].status) >= StatusRank(scans[i].status)]_vars

\* C9 as claimed: a reported row is FINISHED.
C9_ReportedOnlyFinished ==
    \A i \in ScanIds : scans[i].reported_at # None => scans[i].status = "FINISHED"

\* C9 as amended: on a row that is not FINISHED, a report that leaves out
\* inspector_url or additional_information is rejected with a client error and
\* never marks the row reported.
C9_UnfinishedNeedsBothFields ==
    \A i \in ScanIds, url \in ReqUrls, info \in ReqInfos, mail_ok \in BOOLEAN :
        (scans[i].status # "FINISHED" /\ (url = None \/ info = None)) =>
            ReportOutcome(i, url, info, mail_ok) \in
                {"AlreadyReported", "MissingInspectorUrl", "MissingAdditionalInformation"}

\* A row that is not FINISHED has been reported.
C9_Witness ==
    \E i \in ScanIds :
        scans[i].status # "FINISHED" /\ scans[i].reported_at # None /\ sent[i] = 1

\* C10: whenever the checks of report_package pass, the mail handed on has an
\* inspector URL and either additional information or a matched rule, so the
\* ValueError of send_report_email is not raised.
C10_ReportActionable ==
    \A i \in ScanIds, url \in ReqUrls, info \in ReqInfos :
        ReportCheck(scans[i], url, info) = "" =>
            LET mail == ReportMail(scans[i], scans[i].name, scans[i].version, url, info) IN
            /\ mail.inspector_url # None
            /\ mail.additional_information # None \/ mail.rules_matched # {}
            /\ ReportOutcome(i, url, info, TRUE) = "Reported"

\* A report has gone out for a scan that matched no rule.
C10_Witness ==
    \E i \in ScanIds :
        sent[i] = 1 /\ scans[i].status = "FINISHED" /\ scans[i].rules = {}

\* C11: once reported_at of a row is set, every report on the row is answered
\* AlreadyReported whatever it supplies, and no step sends another report for
\* the row, clears reported_at or changes it.
C11_ReportTwiceFails ==
    /\ [](\A i \in ScanIds : scans[i].reported_at # None =>
            \A url \in ReqUrls, info \in ReqInfos, mail_ok \in BOOLEAN :
                ReportResponse(scans[i].name, Some(scans[i].version), url, info, mail_ok)
                    = "AlreadyReported")
    /\ [][\A i \in ScanIds : scans[i].reported_at # None =>
            /\ scans'[i].reported_at = scans[i].reported_at
            /\ sent'[i] = sent[i]]_vars

\* The rows a report request is about.
Requested(name, version) ==
    {i \in ScanIds : /\ OnPyPI(name, version)
                     /\ scans[i].name = name
                     /\ scans[i].version = MetadataVersion(name, version)}

\* C12: a report whose mail can be sent is answered with the first violated
\* rule in the order NotFound, AlreadyReported, MissingField(inspector_url),
\* MissingField(additional_information), and succeeds exactly when it violates
\* none, for every state of the row and every combination of request fields.
C12_FirstViolatedRule ==
    \A name \in Names, version \in ReqVersions, url \in ReqUrls, info \in ReqInfos :
        LET response == ReportResponse(name, version, url, info, TRUE) IN
        IF Requested(name, version) = {} THEN response = "NotFound"
        ELSE \A i \in Requested(name, version) :
                IF scans[i].reported_at # None THEN response = "AlreadyReported"
                ELSE IF url = None /\ scans[i].inspector_url = None
                     THEN response = "MissingInspectorUrl"
                ELSE IF info = None /\ scans[i].rules = {}
                     THEN response = "MissingAdditionalInformation"
                ELSE response = "Reported"

\* One row has been reported, and another, not reported, has neither an
\* inspector URL nor a matched rule: a request naming it with no field
\* violates two rules at once.
C12_Witness ==
    \E i, j \in ScanIds :
        /\ scans[i].reported_at # None /\ sent[i] = 1
        /\ scans[j].reported_at = None /\ scans[j].inspector_url = None /\ scans[j].rules = {}

\* C13: when the request supplies additional_information, the rule names of
\* the mail handed on are those stored on the row, possibly none.
C13_InfoKeepsStoredRules ==
    \A i \in ScanIds, url \in ReqUrls, info \in ReqInfos \ {None} :
        ReportCheck(scans[i], url, info) = "" =>
            ReportMail(scans[i], scans[i].name, scans[i].version, url, info).rules_matched
                = scans[i].rules

\* C14: a report on an unreported row with a stored inspector URL and matched
\* rules, supplying neither field, succeeds, and its mail carries the stored
\* URL, the placeholder for the description and exactly the stored rule names;
\* a report that supplies inspector_url carries the request's URL instead.
C14_StoredDefaults ==
    \A i \in ScanIds :
        (scans[i].reported_at = None /\ scans[i].inspector_url # None /\ scans[i].rules # {}) =>
            /\ ReportResponse(scans[i].name, Some(scans[i].version), None, None, TRUE)
                  = "Reported"
            /\ ReportContent(ReportMail(scans[i], scans[i].name, scans[i].version, None, None))
                  = [package_name |-> scans[i].name, package_version |-> scans[i].version,
                     inspector_url |-> scans[i].inspector_url[1],
                     additional_information |-> NoDescription,
                     rules_matched |-> scans[i].rules]
            /\ \A url \in ReqUrls \ {None}, info \in ReqInfos :
                  /\ ReportResponse(scans[i].name, Some(scans[i].version), url, info, TRUE)
                        = "Reported"
                  /\ ReportContent(ReportMail(scans[i], scans[i].name, scans[i].version,
                                              url, info)).inspector_url = url[1]

\* A scanned row with a stored URL and matched rules has been reported, and
\* another such row has not been yet.
C14_Witness ==
    \E i, j \in ScanIds :
        /\ sent[i] = 1 /\ scans[i].inspector_url # None /\ scans[i].rules # {}
        /\ scans[j].reported_at = None /\ scans[j].inspector_url # None /\ scans[j].rules # {}

\* C15: queue_package of a release that already has a row answers
\* AlreadyExists and changes nothing, whatever the status of the row; of a
\* release that has none it appends exactly one row, QUEUED, with pending_at,
\* finished_at and reported_at NULL, and leaves the other rows as they were.
C15_EnqueueOnceOnly ==
    /\ [](\A name \in PyPINames, version \in ReqVersions :
            QueueOutcome(name, version) =
                IF Rows(name, MetadataVersion(name, version)) # {}
                THEN "AlreadyExists" ELSE "Queued")
    /\ [][scans' # scans =>
            \A name \in PyPINames, version \in ReqVersions :
                QueuePackage(name, version) =>
                    /\ Rows(name, MetadataVersion(name, version)) = {}
                    /\ Len(scans') = Len(scans) + 1
                    /\ \A i \in ScanIds : scans'[i] = scans[i]
                    /\ scans'[Len(scans')].name = name
                    /\ scans'[Len(scans')].version = MetadataVersion(name, version)
                    /\ scans'[Len(scans')].status = "QUEUED"
                    /\ scans'[Len(scans')].queued_at = now
                    /\ scans'[Len(scans')].pending_at = None
                    /\ scans'[Len(scans')].finished_at = None
                    /\ scans'[Len(scans')].reported_at = None]_vars

\* A release was queued while the row of another was PENDING, and both rows
\* are there: a request for either is now a duplicate.
C15_Witness ==
    \E i, j \in ScanIds :
        /\ scans[i].status = "PENDING" /\ scans[j].status = "QUEUED"
        /\ scans[i].pending_at[1] < scans[j].queued_at

\* C16: however concurrent queue_package requests for one release interleave,
\* the table never holds two rows with the same name and version, and a request
\* that finds the release taken when it comes to insert is answered
\* AlreadyExists.
C16_ConcurrentEnqueue ==
    /\ \A i, j \in ScanIds :
          (scans[i].name = scans[j].name /\ scans[i].version = scans[j].version) => i = j
    /\ \A p \in Procs :
          (pc[p] = "queue" /\ UniqueViolation(scans, loaded[p][1].name, loaded[p][1].version))
              => QueueCommitOutcome(p) = "AlreadyExists"

\* C17: pending_at and pending_by are both NULL on a QUEUED row and both set
\* on a PENDING or FINISHED row.
C17_PendingFieldsTogether ==
    \A i \in ScanIds :
        IF scans[i].status = "QUEUED"
        THEN scans[i].pending_at = None /\ scans[i].pending_by = None
        ELSE scans[i].pending_at # None /\ scans[i].pending_by # None

\* A row handed out twice is FINISHED while another row is PENDING and a
\* transaction of get_jobs is still open.
C17_Witness ==
    \E i, j \in ScanIds, p \in Procs :
        /\ scans[i].status = "FINISHED" /\ handed[i] = 2
        /\ scans[j].status = "PENDING"
        /\ pc[p] = "jobs"

\* C18: however concurrent report_package requests for one row interleave, at
\* most one report mail goes out for the row, and a request that comes to send
\* its mail when the row is already reported is answered AlreadyReported
\* without sending.
C18_ReportAtMostOnce ==
    /\ [](\A i \in ScanIds : sent[i] <= 1)
    /\ [][\A p \in Procs :
            (/\ pc[p] = "report"
             /\ scans[loaded[p][1].id].reported_at # None
             /\ ReportCommit(p, TRUE)) => sent' = sent]_vars

\* C19: once a row is FINISHED no step hands it to a worker or writes its
\* pending_at or pending_by, however get_jobs and Complete interleave.
C19_FinishedNeverReassigned ==
    [][\A i \in ScanIds : scans[i].status = "FINISHED" =>
            /\ handed'[i] = handed[i]
            /\ scans'[i].pending_at = scans[i].pending_at
            /\ scans'[i].pending_by = scans[i].pending_by]_vars

\* C20, abandoned jobs: a PENDING row whose timeout has elapsed is eventually
\* assigned again (or completed).
C20_TimedOutEventuallyReassigned ==
    \A i \in 1..MaxScans :
        (i \in ScanIds /\ TimedOut(scans[i], now))
            ~> (i \in ScanIds /\ ~TimedOut(scans[i], now))

\* C20, queued jobs: a QUEUED row is eventually assigned.
C20_QueuedEventuallyAssigned ==
    \A i \in 1..MaxScans :
        (i \in ScanIds /\ scans[i].status = "QUEUED")
            ~> (i \in ScanIds /\ scans[i].status # "QUEUED")

\* C20: while get_jobs keeps being called, no abandoned job and no queued job
\* waits for ever, whatever else keeps being queued or keeps timing out.
C20_NoStarvation ==
    C20_TimedOutEventuallyReassigned /\ C20_QueuedEventuallyAssigned

\* C21: a report_package that fails (no row, row already reported, a field
\* missing, or the mail not sent) changes no row and sends nothing: no step
\* that sends a mail or writes reported_at is the step of such a request.  A
\* step that does writes reported_at of one unreported row, sends one mail for
\* it and changes nothing else, and reported_at is never set without a mail
\* sent.
C21_FailedReportChangesNothing ==
    /\ [](\A i \in ScanIds : scans[i].reported_at # None => sent[i] >= 1)
    /\ [][(sent' # sent \/ \E k \in ScanIds : scans'[k].reported_at # scans[k].reported_at) =>
            /\ \A name \in Names, version \in ReqVersions :
                  Requested(name, version) = {} =>
                      \A url \in ReqUrls, info \in ReqInfos, mail_ok \in BOOLEAN :
                          ~ReportPackage(name, version, url, info, mail_ok)
            /\ \A i \in ScanIds :
                  (sent'[i] # sent[i] \/ scans'[i] # scans[i]) =>
                      /\ scans[i].reported_at = None /\ scans'[i].reported_at # None
                      /\ scans'[i] = [scans[i] EXCEPT !.reported_at = scans'[i].reported_at]
                      /\ sent'[i] = sent[i] + 1
                      /\ \A j \in ScanIds \ {i} : scans'[j] = scans[j] /\ sent'[j] = sent[j]
                      /\ \A version \in ReqVersions :
                            i \in Requested(scans[i].name, version) =>
                                \A url \in ReqUrls, info \in ReqInfos, mail_ok \in BOOLEAN :
                                    (\/ ~mail_ok
                                     \/ url = None /\ scans[i].inspector_url = None
                                     \/ info = None /\ scans[i].rules = {})
                                        => ~ReportPackage(scans[i].name, version,
                                                          url, info, mail_ok)]_vars

\* One row has been reported; another, scanned with no inspector URL stored
\* and not reported, has had no mail sent: a report naming it without a URL is
\* one that fails.
C21_Witness ==
    \E i, j \in ScanIds :
        /\ scans[i].reported_at # None /\ sent[i] = 1
        /\ scans[j].status = "FINISHED" /\ scans[j].inspector_url = None
        /\ scans[j].reported_at = None /\ sent[j] = 0

====
